---- MODULE Spec2Model ----
(***************************************************************************)
(* sea_orm_builder: the derive macros (sea_orm_builder_derive) that turn a *)
(* SeaORM Model struct with #[sea_builder(..)] field attributes into       *)
(* Select / Update / Delete builders, and the behaviour of the generated   *)
(* builders at run time.                                                   *)
(*                                                                         *)
(* One behaviour = one macro invocation (expand) on one derive input,      *)
(* followed by the life of one instance of the generated builder.          *)
(***************************************************************************)
EXTENDS Integers, Sequences, FiniteSets, TLC

VARIABLES
    di,      \* the derive input: the struct and its attributes (gen.rs 22)
    mode,    \* gen::Mode of the macro invocation, "none" before it (gen.rs 14-18)
    gen,     \* the output of expand: generated pieces, or an error (gen.rs 44-48)
    pc,      \* "input" | "expanded" | "open" | "consumed"
    self,    \* the builder's struct fields (gen.rs 76-81, 169-175, 236-241)
    out,     \* what the terminal call returned (gen.rs 129-133, 194-204, 259-267)
    calls    \* history: the calls made on the builder, in order

vars == <<di, mode, gen, pc, self, out, calls>>

----------------------------------------------------------------------------
(* Bounds of the model *)

MaxCalls == 3        \* calls made on one builder before the terminal call
MaxInt == 1          \* integer arguments range over 0..MaxInt
MaxListLen == 1      \* length of the lists passed to in / not_in

----------------------------------------------------------------------------
(* Generic helpers *)

None == <<>>
Some(v) == <<v>>
is_some(o) == o # <<>>
unwrap(o) == o[1]

Range(s) == {s[i] : i \in DOMAIN s}

RECURSIVE Join(_)
\* ident.to_string(): the characters of an identifier as one string
Join(cs) == IF cs = <<>> THEN "" ELSE Head(cs) \o Join(Tail(cs))

RECURSIVE SeqsUpTo(_, _)
SeqsUpTo(S, n) ==
    IF n = 0 THEN {<<>>}
    ELSE LET shorter == SeqsUpTo(S, n - 1)
         IN  shorter \cup {Append(s, x) : s \in {t \in shorter : Len(t) = n - 1}, x \in S}

----------------------------------------------------------------------------
(* ast.rs: to_camel (heck::ToUpperCamelCase) over identifier characters *)

LowerChars == <<"a", "b", "d", "e", "f", "g", "i", "m", "n", "o", "r", "t">>
UpperChars == <<"A", "B", "D", "E", "F", "G", "I", "M", "N", "O", "R", "T">>
Digits == {"0", "1", "2", "3", "4", "5", "6", "7", "8", "9"}

IsLower(c) == c \in Range(LowerChars)
IsUpper(c) == c \in Range(UpperChars)
IsAlnum(c) == IsLower(c) \/ IsUpper(c) \/ c \in Digits

IndexIn(c, s) == CHOOSE i \in DOMAIN s : s[i] = c
ToUpperChar(c) == IF IsLower(c) THEN UpperChars[IndexIn(c, LowerChars)] ELSE c
ToLowerChar(c) == IF IsUpper(c) THEN LowerChars[IndexIn(c, UpperChars)] ELSE c

\* A new word starts at position i: at the start, after a separator, at a
\* lower->Upper boundary, or at the last capital of an acronym ("ABc" -> A|Bc).
WordStart(cs, i) ==
    /\ IsAlnum(cs[i])
    /\ \/ i = 1
       \/ ~IsAlnum(cs[i - 1])
       \/ IsLower(cs[i - 1]) /\ IsUpper(cs[i])
       \/ /\ IsUpper(cs[i - 1]) /\ IsUpper(cs[i])
          /\ i < Len(cs) /\ IsLower(cs[i + 1])

RECURSIVE CamelFrom(_, _)
CamelFrom(cs, i) ==
    IF i > Len(cs) THEN ""
    ELSE IF ~IsAlnum(cs[i]) THEN CamelFrom(cs, i + 1)
    ELSE (IF WordStart(cs, i) THEN ToUpperChar(cs[i]) ELSE ToLowerChar(cs[i]))
         \o CamelFrom(cs, i + 1)

\* to_camel, but only the first character is capitalised
to_camel_first_only(cs) == IF cs = <<>> THEN "" ELSE ToUpperChar(cs[1]) \o Join(Tail(cs))

to_camel(cs) == CamelFrom(cs, 1)

----------------------------------------------------------------------------
(* The derive input.  A meta item is a path, optionally followed by a      *)
(* parenthesised list of meta items: select(where(eq, in)) is              *)
(* P("select", <<P("where", <<I("eq"), I("in")>>)>>).                      *)

I(name) == [path |-> <<name>>, paren |-> FALSE, args |-> <<>>]
Path2(a, b) == [path |-> <<a, b>>, paren |-> FALSE, args |-> <<>>]
P(name, items) == [path |-> <<name>>, paren |-> TRUE, args |-> items]
Attr(name, items) == [path |-> name, metas |-> items]
KV(name, lit) == [path |-> <<name>>, value |-> lit]
Field(ident, ty, attrs) == [ident |-> ident, ty |-> ty, attrs |-> attrs]

is_ident(meta, name) == meta.path = <<name>>

----------------------------------------------------------------------------
(* ast.rs: the schema extractor *)

\* FieldPerms::default()
FieldPermsDefault ==
    [select_where |-> <<>>, update_where |-> <<>>, update_set |-> FALSE,
     delete_where |-> <<>>]

RECURSIVE parse_ops_args(_, _, _)
\* The closure of parse_ops_nested run over the items of the list: a
\* single-segment path is pushed, any other path is passed over; an item
\* followed by its own parenthesised list is left unconsumed, which the
\* nested-meta parser rejects.
parse_ops_args(args, i, target) ==
    IF i > Len(args) THEN [ok |-> TRUE, target |-> target]
    ELSE LET inner == args[i]
             pushed == IF Len(inner.path) = 1
                       THEN Append(target, inner.path[1])
                       ELSE target
         IN  IF inner.paren
             THEN [ok |-> FALSE, target |-> target]
             ELSE parse_ops_args(args, i + 1, pushed)

parse_ops_nested(meta, target) ==
    IF ~meta.paren \/ meta.args = <<>>
    THEN [ok |-> FALSE, target |-> target]
    ELSE parse_ops_args(meta.args, 1, target)

\* The closure given to meta.parse_nested_meta for one context
\* (select / update / delete), applied to one nested item m2.
parse_context_item(ctx, m2, perms) ==
    IF is_ident(m2, "where")
    THEN IF ctx = "select"
         THEN LET r == parse_ops_nested(m2, perms.select_where)
              IN  [ok |-> r.ok, perms |-> [perms EXCEPT !.select_where = r.target]]
         ELSE IF ctx = "update"
         THEN LET r == parse_ops_nested(m2, perms.update_where)
              IN  [ok |-> r.ok, perms |-> [perms EXCEPT !.update_where = r.target]]
         ELSE LET r == parse_ops_nested(m2, perms.delete_where)
              IN  [ok |-> r.ok, perms |-> [perms EXCEPT !.delete_where = r.target]]
    ELSE IF ctx = "update" /\ is_ident(m2, "set")
    THEN [ok |-> ~m2.paren, perms |-> [perms EXCEPT !.update_set = TRUE]]
    ELSE [ok |-> ~m2.paren, perms |-> perms]

RECURSIVE parse_context_args(_, _, _, _)
parse_context_args(ctx, args, i, perms) ==
    IF i > Len(args) THEN [ok |-> TRUE, perms |-> perms]
    ELSE LET r == parse_context_item(ctx, args[i], perms)
         IN  IF ~r.ok THEN r ELSE parse_context_args(ctx, args, i + 1, r.perms)

\* The closure given to attr.parse_nested_meta, applied to one top-level
\* item: select / update / delete descend; any other name does nothing and
\* returns Ok, so an argument list after it stays unconsumed.
parse_top_item(meta, perms) ==
    IF is_ident(meta, "select") \/ is_ident(meta, "update") \/ is_ident(meta, "delete")
    THEN IF ~meta.paren \/ meta.args = <<>>
         THEN [ok |-> FALSE, perms |-> perms]
         ELSE parse_context_args(meta.path[1], meta.args, 1, perms)
    ELSE [ok |-> ~meta.paren, perms |-> perms]

RECURSIVE parse_top_args(_, _, _)
parse_top_args(metas, i, perms) ==
    IF i > Len(metas) THEN [ok |-> TRUE, perms |-> perms]
    ELSE LET r == parse_top_item(metas[i], perms)
         IN  IF ~r.ok THEN r ELSE parse_top_args(metas, i + 1, r.perms)

RECURSIVE parse_attrs_from(_, _, _)
parse_attrs_from(attrs, i, perms) ==
    IF i > Len(attrs) THEN [ok |-> TRUE, perms |-> perms]
    ELSE IF attrs[i].path # "sea_builder"
    THEN parse_attrs_from(attrs, i + 1, perms)
    ELSE LET r == parse_top_args(attrs[i].metas, 1, perms)
         IN  IF ~r.ok THEN r ELSE parse_attrs_from(attrs, i + 1, r.perms)

parse_sea_builder_attrs(attrs) == parse_attrs_from(attrs, 1, FieldPermsDefault)

RECURSIVE collect_fields(_, _, _)
collect_fields(named, i, fields_out) ==
    IF i > Len(named) THEN [ok |-> TRUE, fields |-> fields_out]
    ELSE LET f == named[i]
             r == parse_sea_builder_attrs(f.attrs)
         IN  IF ~r.ok THEN [ok |-> FALSE, fields |-> <<>>]
             ELSE collect_fields(named, i + 1,
                      Append(fields_out,
                             [ident |-> f.ident, ty |-> f.ty, perms |-> r.perms]))

RECURSIVE collect_prefix_metas(_, _, _)
\* The closure given to attr.parse_nested_meta for a #[sea_orm(..)] attribute
\* of the struct: table_name = "<lit>" sets the prefix; any other item does
\* nothing and returns Ok, so a value after it stays unconsumed.
collect_prefix_metas(metas, i, prefix) ==
    IF i > Len(metas) THEN [ok |-> TRUE, prefix |-> prefix]
    ELSE LET meta == metas[i]
         IN  IF is_ident(meta, "table_name")
             THEN IF is_some(meta.value)
                  THEN collect_prefix_metas(metas, i + 1, Some(to_camel(unwrap(meta.value))))
                  ELSE [ok |-> FALSE, prefix |-> prefix]
             ELSE IF is_some(meta.value)
                  THEN [ok |-> FALSE, prefix |-> prefix]
                  ELSE collect_prefix_metas(metas, i + 1, prefix)

RECURSIVE collect_prefix(_, _, _)
collect_prefix(attrs, i, prefix) ==
    IF i > Len(attrs) THEN [ok |-> TRUE, prefix |-> prefix]
    ELSE IF attrs[i].path # "sea_orm"
    THEN collect_prefix(attrs, i + 1, prefix)
    ELSE LET r == collect_prefix_metas(attrs[i].metas, 1, prefix)
         IN  IF ~r.ok THEN r ELSE collect_prefix(attrs, i + 1, r.prefix)

collect(d) ==
    LET p == collect_prefix(d.attrs, 1, None)
        entity_prefix == IF is_some(p.prefix) THEN unwrap(p.prefix) ELSE "Entity"
    IN  IF ~p.ok \/ d.data # "struct" \/ ~d.named
        THEN [ok |-> FALSE, entity_prefix |-> entity_prefix, fields |-> <<>>]
        ELSE LET r == collect_fields(d.fields, 1, <<>>)
             IN  [ok |-> r.ok, entity_prefix |-> entity_prefix, fields |-> r.fields]

----------------------------------------------------------------------------
(* gen.rs: the builder synthesizer.  Generated items are records that the  *)
(* run-time part below executes.                                           *)

ScalarOps == {"eq", "ne", "lt", "lte", "gt", "gte", "like", "ilike"}

NoMethod(msg) ==
    [kind |-> "compile_error", ident |-> "", field |-> "", op |-> "", column |-> "",
     storage |-> "", ty |-> "", msg |-> msg]

gen_where_pieces(field_ident, field_ty, op) ==
    LET field_name == Join(field_ident)
        method_ident == IF op = "in" THEN field_name \o "_in"
                        ELSE field_name \o "_" \o op
        column_variant == to_camel(field_ident)
        storage_ident == field_name \o "_" \o op \o "_val"
        shape == IF op \in ScalarOps THEN "scalar"
                 ELSE IF op = "in" THEN "in"
                 ELSE IF op = "not_in" THEN "not_in"
                 ELSE IF op = "between" THEN "between"
                 ELSE "unsupported"
    IN  IF shape = "unsupported"
        THEN [storage |-> None, init |-> None,
              method |-> NoMethod("unsupported op: " \o op), accessor |-> None]
        ELSE [storage |-> Some([ident |-> storage_ident, shape |-> shape, ty |-> field_ty]),
              init |-> Some([ident |-> storage_ident, value |-> None]),
              method |-> [kind |-> shape, ident |-> method_ident, field |-> field_name,
                          op |-> op, column |-> column_variant,
                          storage |-> storage_ident, ty |-> field_ty, msg |-> ""],
              accessor |-> Some([is |-> "is_" \o field_name \o "_" \o op,
                                 get |-> "get_" \o field_name \o "_" \o op,
                                 storage |-> storage_ident, shape |-> shape])]

gen_set_method(field_ident, field_ty) ==
    [ident |-> "set_" \o Join(field_ident), field |-> Join(field_ident),
     column |-> to_camel(field_ident), ty |-> field_ty]

gen_params_accessors(field_ident, field_ty, op) ==
    LET field_name == Join(field_ident)
        storage_ident == field_name \o "_" \o op \o "_val"
    IN  IF op \in ScalarOps
        THEN Some([is |-> "is_" \o field_name \o "_" \o op,
                   get |-> "get_" \o field_name \o "_" \o op,
                   storage |-> storage_ident, shape |-> "scalar"])
        ELSE IF op = "in"
        THEN Some([is |-> "is_" \o field_name \o "_in",
                   get |-> "get_" \o field_name \o "_in",
                   storage |-> storage_ident, shape |-> "in"])
        ELSE IF op = "not_in"
        THEN Some([is |-> "is_" \o field_name \o "_not_in",
                   get |-> "get_" \o field_name \o "_not_in",
                   storage |-> storage_ident, shape |-> "not_in"])
        ELSE IF op = "between"
        THEN Some([is |-> "is_" \o field_name \o "_between",
                   get |-> "get_" \o field_name \o "_between",
                   storage |-> storage_ident, shape |-> "between"])
        ELSE None

\* The vectors a build_* function fills while it walks fields and ops.
NoPieces ==
    [storages |-> <<>>, inits |-> <<>>, methods |-> <<>>, set_methods |-> <<>>,
     accessors |-> <<>>, params_accessors |-> <<>>, move_fields |-> <<>>]

RECURSIVE push_ops(_, _, _, _)
\* The inner loop `for op in &f.perms.<list>` of the three build_* functions.
push_ops(f, ops, i, acc) ==
    IF i > Len(ops) THEN acc
    ELSE LET op_str == ops[i]
             pieces == gen_where_pieces(f.ident, f.ty, op_str)
             storage_ident == Join(f.ident) \o "_" \o op_str \o "_val"
         IN  push_ops(f, ops, i + 1,
                 [acc EXCEPT
                     !.storages = Append(@, pieces.storage),
                     !.inits = Append(@, pieces.init),
                     !.methods = Append(@, pieces.method),
                     !.accessors = Append(@, pieces.accessor),
                     !.move_fields = Append(@, storage_ident),
                     !.params_accessors =
                         Append(@, gen_params_accessors(f.ident, f.ty, op_str))])

RECURSIVE select_fields(_, _, _)
select_fields(fields, i, acc) ==
    IF i > Len(fields) THEN acc
    ELSE select_fields(fields, i + 1,
             push_ops(fields[i], fields[i].perms.select_where, 1, acc))

RECURSIVE update_fields(_, _, _)
update_fields(fields, i, acc) ==
    IF i > Len(fields) THEN acc
    ELSE LET f == fields[i]
             a1 == push_ops(f, f.perms.update_where, 1, acc)
             a2 == IF f.perms.update_set
                   THEN [a1 EXCEPT !.set_methods = Append(@, gen_set_method(f.ident, f.ty))]
                   ELSE a1
         IN  update_fields(fields, i + 1, a2)

RECURSIVE delete_fields(_, _, _)
delete_fields(fields, i, acc) ==
    IF i > Len(fields) THEN acc
    ELSE delete_fields(fields, i + 1,
             push_ops(fields[i], fields[i].perms.delete_where, 1, acc))

Generated(kind, name, pieces) ==
    [ok |-> TRUE, kind |-> kind, name |-> name, params_name |-> name \o "Params",
     storages |-> pieces.storages, inits |-> pieces.inits, methods |-> pieces.methods,
     set_methods |-> pieces.set_methods, accessors |-> pieces.accessors,
     params_accessors |-> pieces.params_accessors, move_fields |-> pieces.move_fields]

build_select(name, fields) == Generated("Select", name, select_fields(fields, 1, NoPieces))

build_update(name, fields) == Generated("Update", name, update_fields(fields, 1, NoPieces))

\* build_delete walking the select list
build_delete_select_list(name, fields) ==
    Generated("Delete", name, select_fields(fields, 1, NoPieces))

build_delete(name, fields) == Generated("Delete", name, delete_fields(fields, 1, NoPieces))

\* err.to_compile_error(): the only thing emitted when collect fails
CollectError ==
    [ok |-> FALSE, kind |-> "none", name |-> "", params_name |-> "",
     storages |-> <<>>, inits |-> <<>>, methods |-> <<>>, set_methods |-> <<>>,
     accessors |-> <<>>, params_accessors |-> <<>>, move_fields |-> <<>>]

expand(input, m) ==
    LET c == collect(input)
    IN  IF ~c.ok THEN CollectError
        ELSE IF m = "Select" THEN build_select(c.entity_prefix \o "Select", c.fields)
        ELSE IF m = "Update" THEN build_update(c.entity_prefix \o "Update", c.fields)
        ELSE build_delete(c.entity_prefix \o "Delete", c.fields)

\* The expansion is accepted by the compiler: collect did not fail and no
\* generated item is a compile_error!.
Compiles(g) == g.ok /\ \A i \in DOMAIN g.methods : g.methods[i].kind # "compile_error"

----------------------------------------------------------------------------
(* The statement collaborator (sea_orm), through the calls the generated   *)
(* code makes: a statement is what has been applied to it, in order.       *)

\* Entity::find() / Entity::update_many() / Entity::delete_many()
EmptyStatement(kind) ==
    [kind |-> kind, filters |-> <<>>, values |-> <<>>, orders |-> <<>>,
     limit |-> None, offset |-> None]

filter(stmt, predicate) == [stmt EXCEPT !.filters = Append(@, predicate)]
col_expr(stmt, column, v) == [stmt EXCEPT !.values = Append(@, [col |-> column, val |-> v])]
order_by(stmt, column, ord) == [stmt EXCEPT !.orders = Append(@, [col |-> column, ord |-> ord])]
limit(stmt, n) == [stmt EXCEPT !.limit = Some(n)]
offset(stmt, n) == [stmt EXCEPT !.offset = Some(n)]

\* Column::<Variant>.<op>(..)
Predicate(column, op, val) == [col |-> column, op |-> op, val |-> val]

----------------------------------------------------------------------------
(* src/lib.rs: IntoField, WhereParam, WhereValue, SeaOrmBuilderError *)

\* An argument is a value together with the type it is passed as.
Arg(src, val) == [src |-> src, val |-> val]

\* &str -> String by to_owned(); T -> T unchanged
into_field(v, ty) == v.val

RECURSIVE into_field_all(_, _)
\* iter.into_iter().map(|x| x.into_field()).collect()
into_field_all(iter, ty) ==
    IF iter = <<>> THEN <<>>
    ELSE <<into_field(Head(iter), ty)>> \o into_field_all(Tail(iter), ty)

Single(s) == [variant |-> "Single", s |-> s]
List(items) == [variant |-> "List", items |-> items]
RangeValue(start, end) == [variant |-> "Range", start |-> start, end |-> end]
WhereParam(field, op, value) == [field |-> field, op |-> op, value |-> value]

Ok(stmt, params) == [tag |-> "Ok", statement |-> stmt, params |-> params, error |-> "none"]
Err(e) == [tag |-> "Err", statement |-> None, params |-> None, error |-> e]

\* format!("{:?}", x) for a value of a field type
fmt_debug(x, ty) == IF ty = "String" THEN "\"" \o x \o "\"" ELSE ToString(x)

\* format!("{:?}", o) for an Option of a field type
fmt_debug_option(o, ty) ==
    IF is_some(o) THEN "Some(" \o fmt_debug(unwrap(o), ty) \o ")" ELSE "None"

RECURSIVE fmt_debug_all(_, _)
\* .iter().map(|x| format!("{:?}", x)).collect()
fmt_debug_all(xs, ty) ==
    IF xs = <<>> THEN <<>>
    ELSE <<fmt_debug(Head(xs), ty)>> \o fmt_debug_all(Tail(xs), ty)

----------------------------------------------------------------------------
(* The generated builders at run time *)

InitSlots(g) ==
    [id \in {unwrap(g.inits[i]).ident : i \in DOMAIN g.inits} |->
        LET i == CHOOSE j \in DOMAIN g.inits : unwrap(g.inits[j]).ident = id
        IN  unwrap(g.inits[i]).value]

\* <Name>::new()
new(g) ==
    IF g.kind = "Update"
    THEN [statement |-> EmptyStatement("Update"), has_where |-> FALSE, set_count |-> 0,
          where_params |-> <<>>, slots |-> InitSlots(g)]
    ELSE [statement |-> EmptyStatement(g.kind), has_where |-> FALSE,
          where_params |-> <<>>, slots |-> InitSlots(g)]

\* scalar_method, but a set slot keeps its first value
scalar_method_keep_first(b, m, v) ==
    LET vv == into_field(v, m.ty)
        stored == IF is_some(b.slots[m.storage]) THEN b.slots[m.storage] ELSE Some(vv)
    IN  [b EXCEPT
            !.slots[m.storage] = stored,
            !.statement = filter(@, Predicate(m.column, m.op, vv)),
            !.has_where = TRUE,
            !.where_params =
                Append(@, WhereParam(m.field, m.op, Single(fmt_debug_option(stored, m.ty))))]

\* scalar_method, but the record of an overwritten slot is replaced
scalar_method_one_record_per_slot(b, m, v) ==
    LET vv == into_field(v, m.ty)
        stored == Some(vv)
        others == SelectSeq(b.where_params, LAMBDA r : ~(r.field = m.field /\ r.op = m.op))
    IN  [b EXCEPT
            !.slots[m.storage] = stored,
            !.statement = filter(@, Predicate(m.column, m.op, vv)),
            !.has_where = TRUE,
            !.where_params =
                Append(others, WhereParam(m.field, m.op, Single(fmt_debug_option(stored, m.ty))))]

\* <field>_<op>(v) for eq, ne, lt, lte, gt, gte, like, ilike
scalar_method(b, m, v) ==
    LET vv == into_field(v, m.ty)
        stored == Some(vv)
    IN  [b EXCEPT
            !.slots[m.storage] = stored,
            !.statement = filter(@, Predicate(m.column, m.op, vv)),
            !.has_where = TRUE,
            !.where_params =
                Append(@, WhereParam(m.field, m.op, Single(fmt_debug_option(stored, m.ty))))]

\* in_method, but has_where is left as it was
in_method_unmarked(b, m, iter) ==
    LET vec_tmp == into_field_all(iter, m.ty)
        stored == Some(vec_tmp)
    IN  [b EXCEPT
            !.slots[m.storage] = stored,
            !.statement = filter(@, Predicate(m.column, "is_in", vec_tmp)),
            !.where_params =
                Append(@, WhereParam(m.field, m.op, List(fmt_debug_all(unwrap(stored), m.ty))))]

\* <field>_in(iter)
in_method(b, m, iter) ==
    LET vec_tmp == into_field_all(iter, m.ty)
        stored == Some(vec_tmp)
    IN  [b EXCEPT
            !.slots[m.storage] = stored,
            !.statement = filter(@, Predicate(m.column, "is_in", vec_tmp)),
            !.has_where = TRUE,
            !.where_params =
                Append(@, WhereParam(m.field, m.op, List(fmt_debug_all(unwrap(stored), m.ty))))]

\* <field>_not_in(iter)
not_in_method(b, m, iter) ==
    LET vec_tmp == into_field_all(iter, m.ty)
        stored == Some(vec_tmp)
    IN  [b EXCEPT
            !.slots[m.storage] = stored,
            !.statement = filter(@, Predicate(m.column, "is_not_in", vec_tmp)),
            !.has_where = TRUE,
            !.where_params =
                Append(@, WhereParam(m.field, m.op, List(fmt_debug_all(unwrap(stored), m.ty))))]

\* between_method, but the pair is stored lowest first
between_method_sorted(b, m, a1, b1) ==
    LET x == into_field(a1, m.ty)
        y == into_field(b1, m.ty)
        a == IF x <= y THEN x ELSE y
        bb == IF x <= y THEN y ELSE x
        stored == Some(<<a, bb>>)
    IN  [b EXCEPT
            !.slots[m.storage] = stored,
            !.statement = filter(@, Predicate(m.column, "between", <<a, bb>>)),
            !.has_where = TRUE,
            !.where_params =
                Append(@, WhereParam(m.field, m.op,
                              RangeValue(fmt_debug(a, m.ty), fmt_debug(bb, m.ty))))]

\* <field>_between(a, b)
between_method(b, m, a1, b1) ==
    LET a == into_field(a1, m.ty)
        bb == into_field(b1, m.ty)
        stored == Some(<<a, bb>>)
        sa == unwrap(stored)[1]
        sb == unwrap(stored)[2]
    IN  [b EXCEPT
            !.slots[m.storage] = stored,
            !.statement = filter(@, Predicate(m.column, "between", <<a, bb>>)),
            !.has_where = TRUE,
            !.where_params =
                IF is_some(stored)
                THEN Append(@, WhereParam(m.field, m.op,
                                   RangeValue(fmt_debug(sa, m.ty), fmt_debug(sb, m.ty))))
                ELSE @]

\* set_method, but it also marks the builder as filtered
set_method_marks_where(b, sm, v1) ==
    LET v == into_field(v1, sm.ty)
    IN  [b EXCEPT !.statement = col_expr(@, sm.column, v),
                  !.set_count = @ + 1,
                  !.has_where = TRUE]

\* set_<field>(v)
set_method(b, sm, v1) ==
    LET v == into_field(v1, sm.ty)
    IN  [b EXCEPT !.statement = col_expr(@, sm.column, v),
                  !.set_count = @ + 1]

order_by_asc(b, col) == [b EXCEPT !.statement = order_by(@, col, "Asc")]
order_by_desc(b, col) == [b EXCEPT !.statement = order_by(@, col, "Desc")]
\* limit_method, but it also marks the builder as filtered
limit_method_marks_where(b, n) ==
    [b EXCEPT !.statement = limit(@, n), !.has_where = TRUE]

limit_method(b, n) == [b EXCEPT !.statement = limit(@, n)]
offset_method(b, n) == [b EXCEPT !.statement = offset(@, n)]

\* is_<field>_<op>() / get_<field>_<op>() of a builder or of a snapshot
is_accessor(obj, acc) == is_some(obj.slots[acc.storage])
get_accessor(obj, acc) ==
    IF acc.shape = "between"
    THEN IF is_some(obj.slots[acc.storage])
         THEN Some(<<unwrap(obj.slots[acc.storage])[1], unwrap(obj.slots[acc.storage])[2]>>)
         ELSE None
    ELSE obj.slots[acc.storage]

where_params(obj) == obj.where_params

\* Snapshot, but the slots are initialised afresh instead of moved
Snapshot_unset_slots(b, g) ==
    [where_params |-> b.where_params,
     slots |-> [id \in Range(g.move_fields) |-> None]]

\* `#params_name { where_params: self.where_params, #(#move_fields,)* }`
Snapshot(b, g) ==
    [where_params |-> b.where_params,
     slots |-> [id \in Range(g.move_fields) |-> b.slots[id]]]

\* select_build with the check of the Delete builder
select_build_checked(b, g) ==
    IF ~b.has_where THEN Err("NoWhere")
    ELSE Ok(b.statement, None)

select_build(b, g) == Ok(b.statement, None)
select_build_with_params(b, g) == Ok(b.statement, Some(Snapshot(b, g)))

\* update_build with the two checks in the other order
update_build_where_first(b, g) ==
    IF ~b.has_where THEN Err("NoWhere")
    ELSE IF b.set_count = 0 THEN Err("NoSet")
    ELSE Ok(b.statement, None)

update_build(b, g) ==
    IF b.set_count = 0 THEN Err("NoSet")
    ELSE IF ~b.has_where THEN Err("NoWhere")
    ELSE Ok(b.statement, None)

update_build_with_params(b, g) ==
    IF b.set_count = 0 THEN Err("NoSet")
    ELSE IF ~b.has_where THEN Err("NoWhere")
    ELSE Ok(b.statement, Some(Snapshot(b, g)))

\* delete_build without its check
delete_build_unchecked(b, g) == Ok(b.statement, None)

delete_build(b, g) ==
    IF ~b.has_where THEN Err("NoWhere")
    ELSE Ok(b.statement, None)

delete_build_with_params(b, g) ==
    IF ~b.has_where THEN Err("NoWhere")
    ELSE Ok(b.statement, Some(Snapshot(b, g)))

build(b, g) ==
    IF g.kind = "Select" THEN select_build(b, g)
    ELSE IF g.kind = "Update" THEN update_build(b, g)
    ELSE delete_build(b, g)

build_with_params(b, g) ==
    IF g.kind = "Select" THEN select_build_with_params(b, g)
    ELSE IF g.kind = "Update" THEN update_build_with_params(b, g)
    ELSE delete_build_with_params(b, g)

----------------------------------------------------------------------------
(* Inputs *)

id == <<"i", "d">>
name == <<"n", "a", "m", "e">>
age == <<"a", "g", "e">>

Where(ops) == P("where", ops)
PrimaryKey == Attr("sea_orm", <<I("primary_key")>>)
TableName(lit) == Attr("sea_orm", <<KV("table_name", Some(lit))>>)
Derive == Attr("derive", <<>>)
Model(attrs, fields) ==
    [data |-> "struct", named |-> TRUE, attrs |-> attrs, fields |-> fields]

\* the entity of examples/simple.rs, with in / not_in spread over the contexts
DemoItem ==
    Model(<<Derive, TableName(<<"d", "e", "m", "o", "_", "i", "t", "e", "m">>)>>,
      <<Field(id, "u64",
          <<PrimaryKey,
            Attr("sea_builder",
              <<P("select", <<Where(<<I("eq")>>)>>),
                P("update", <<Where(<<I("eq"), I("in")>>)>>),
                P("delete", <<Where(<<I("eq"), I("not_in")>>)>>)>>)>>),
        Field(name, "String",
          <<Attr("sea_builder",
              <<P("select", <<Where(<<I("like")>>)>>),
                P("update", <<Where(<<I("eq")>>), I("set")>>)>>)>>)>>)

\* the `age` field of tests/basic.rs next to a key
FooBar ==
    Model(<<Derive, TableName(<<"f", "o", "o", "_", "b", "a", "r">>)>>,
      <<Field(id, "u64",
          <<Attr("sea_builder", <<P("update", <<Where(<<I("ne")>>)>>)>>),
            Attr("sea_builder", <<P("select", <<Where(<<I("gt")>>)>>)>>)>>),
        Field(age, "i32",
          <<Attr("sea_builder",
              <<P("delete", <<Where(<<I("gte"), I("lt")>>)>>),
                P("update", <<Where(<<I("between")>>), I("set")>>)>>)>>)>>)

\* an operation token outside the supported set, in the select list only
UnknownOp ==
    Model(<<Derive>>,
      <<Field(id, "u64",
          <<Attr("sea_builder",
              <<P("select", <<Where(<<I("eq"), I("regex")>>)>>),
                P("update", <<Where(<<I("lte")>>), I("set")>>),
                P("delete", <<Where(<<I("ilike")>>)>>)>>)>>)>>)

\* a multi-segment path in a where list
PathOp ==
    Model(<<Derive>>,
      <<Field(id, "u64",
          <<Attr("sea_builder",
              <<P("select", <<Where(<<I("eq"), Path2("foo", "bar")>>)>>),
                P("delete", <<Where(<<Path2("foo", "bar"), I("eq")>>)>>)>>)>>)>>)

\* names that are no context, and `set` outside update
UnknownContext ==
    Model(<<Derive>>,
      <<Field(id, "u64",
          <<Attr("sea_builder",
              <<I("audit"),
                P("select", <<Where(<<I("eq")>>), I("set"), I("having")>>),
                P("delete", <<I("set"), Where(<<I("eq")>>)>>)>>)>>)>>)

UnknownContextArgs ==
    Model(<<Derive>>,
      <<Field(id, "u64",
          <<Attr("sea_builder",
              <<P("audit", <<I("eq")>>),
                P("select", <<Where(<<I("eq")>>)>>)>>)>>)>>)

NotAStruct == [Model(<<Derive>>, <<>>) EXCEPT !.data = "enum"]
TupleStruct == [Model(<<Derive>>, <<>>) EXCEPT !.named = FALSE]

\* a struct attribute with a second key = value item, and one that gives the
\* table name twice
SchemaName ==
    Model(<<Attr("sea_orm", <<KV("table_name", Some(<<"i", "t", "e", "m">>)),
                              KV("schema_name", Some(<<"m", "a", "i", "n">>))>>)>>,
          <<>>)
TableTwice ==
    Model(<<TableName(<<"i", "t", "e", "m">>), TableName(<<"b", "a", "r", "_", "i", "d">>)>>,
          <<>>)

DeriveInputs ==
    {DemoItem, FooBar, UnknownOp, PathOp, UnknownContext, UnknownContextArgs,
     NotAStruct, TupleStruct, SchemaName, TableTwice}

Modes == {"Select", "Update", "Delete"}

\* Arguments a caller can pass for a field of type ty
Args(ty) ==
    IF ty = "String"
    THEN {Arg("&str", "abc"), Arg("String", "x")}
    ELSE {Arg(ty, n) : n \in 0..MaxInt}

\* The variants of the entity's Column enum
Columns == {to_camel(di.fields[i].ident) : i \in DOMAIN di.fields}

----------------------------------------------------------------------------
(* Actions *)

Init ==
    /\ di \in DeriveInputs
    /\ mode = "none"
    /\ gen = CollectError
    /\ pc = "input"
    /\ self = None
    /\ out = None
    /\ calls = <<>>

\* One of the three derive macros runs on the input.
Expand(m) ==
    /\ pc = "input"
    /\ mode' = m
    /\ gen' = expand(di, m)
    /\ pc' = "expanded"
    /\ UNCHANGED <<di, self, out, calls>>

New ==
    /\ pc = "expanded"
    /\ Compiles(gen)
    /\ self' = new(gen)
    /\ pc' = "open"
    /\ UNCHANGED <<di, mode, gen, out, calls>>

CanCall == pc = "open" /\ Len(calls) < MaxCalls

Called(kind, m, args) ==
    calls' = Append(calls, [kind |-> kind, method |-> m.ident, field |-> m.field,
                            op |-> IF kind = "where" THEN m.op ELSE "",
                            ty |-> m.ty, args |-> args])

CallScalar ==
    /\ CanCall
    /\ \E i \in DOMAIN gen.methods :
         /\ gen.methods[i].kind = "scalar"
         /\ \E v \in Args(gen.methods[i].ty) :
              /\ self' = scalar_method(self, gen.methods[i], v)
              /\ Called("where", gen.methods[i], <<v>>)
    /\ UNCHANGED <<di, mode, gen, pc, out>>

CallIn ==
    /\ CanCall
    /\ \E i \in DOMAIN gen.methods :
         /\ gen.methods[i].kind = "in"
         /\ \E iter \in SeqsUpTo(Args(gen.methods[i].ty), MaxListLen) :
              /\ self' = in_method(self, gen.methods[i], iter)
              /\ Called("where", gen.methods[i], <<iter>>)
    /\ UNCHANGED <<di, mode, gen, pc, out>>

CallNotIn ==
    /\ CanCall
    /\ \E i \in DOMAIN gen.methods :
         /\ gen.methods[i].kind = "not_in"
         /\ \E iter \in SeqsUpTo(Args(gen.methods[i].ty), MaxListLen) :
              /\ self' = not_in_method(self, gen.methods[i], iter)
              /\ Called("where", gen.methods[i], <<iter>>)
    /\ UNCHANGED <<di, mode, gen, pc, out>>

CallBetween ==
    /\ CanCall
    /\ \E i \in DOMAIN gen.methods :
         /\ gen.methods[i].kind = "between"
         /\ \E a, b \in Args(gen.methods[i].ty) :
              /\ self' = between_method(self, gen.methods[i], a, b)
              /\ Called("where", gen.methods[i], <<a, b>>)
    /\ UNCHANGED <<di, mode, gen, pc, out>>

CallSet ==
    /\ CanCall
    /\ \E i \in DOMAIN gen.set_methods :
         \E v \in Args(gen.set_methods[i].ty) :
              /\ self' = set_method(self, gen.set_methods[i], v)
              /\ Called("set", gen.set_methods[i], <<v>>)
    /\ UNCHANGED <<di, mode, gen, pc, out>>

PassThrough(kind, arg) ==
    calls' = Append(calls, [kind |-> kind, method |-> kind, field |-> "", op |-> "",
                            ty |-> "", args |-> <<arg>>])

OrderByAsc ==
    /\ CanCall /\ gen.kind = "Select"
    /\ \E col \in Columns :
         /\ self' = order_by_asc(self, col)
         /\ PassThrough("order_by_asc", col)
    /\ UNCHANGED <<di, mode, gen, pc, out>>

OrderByDesc ==
    /\ CanCall /\ gen.kind = "Select"
    /\ \E col \in Columns :
         /\ self' = order_by_desc(self, col)
         /\ PassThrough("order_by_desc", col)
    /\ UNCHANGED <<di, mode, gen, pc, out>>

Limit ==
    /\ CanCall /\ gen.kind = "Select"
    /\ \E n \in 0..MaxInt :
         /\ self' = limit_method(self, n)
         /\ PassThrough("limit", n)
    /\ UNCHANGED <<di, mode, gen, pc, out>>

Offset ==
    /\ CanCall /\ gen.kind = "Select"
    /\ \E n \in 0..MaxInt :
         /\ self' = offset_method(self, n)
         /\ PassThrough("offset", n)
    /\ UNCHANGED <<di, mode, gen, pc, out>>

\* `pub statement`: the caller assigns the field a statement of its own.
AssignStatement ==
    /\ CanCall
    /\ self' = [self EXCEPT !.statement = EmptyStatement(gen.kind)]
    /\ PassThrough("statement", "new")
    /\ UNCHANGED <<di, mode, gen, pc, out>>

\* Build, as if build took the builder by reference
Build_by_reference ==
    /\ pc = "open"
    /\ out' = Some([call |-> "build", result |-> build(self, gen)])
    /\ UNCHANGED <<di, mode, gen, pc, self, calls>>

Build ==
    /\ pc = "open"
    /\ out' = Some([call |-> "build", result |-> build(self, gen)])
    /\ pc' = "consumed"
    /\ UNCHANGED <<di, mode, gen, self, calls>>

BuildWithParams ==
    /\ pc = "open"
    /\ out' = Some([call |-> "build_with_params", result |-> build_with_params(self, gen)])
    /\ pc' = "consumed"
    /\ UNCHANGED <<di, mode, gen, self, calls>>

Next ==
    \/ \E m \in Modes : Expand(m)
    \/ New
    \/ CallScalar
    \/ CallIn
    \/ CallNotIn
    \/ CallBetween
    \/ CallSet
    \/ OrderByAsc
    \/ OrderByDesc
    \/ Limit
    \/ Offset
    \/ AssignStatement
    \/ Build
    \/ BuildWithParams

Spec == Init /\ [][Next]_vars

----------------------------------------------------------------------------
(* Vocabulary of the properties *)

Consumed == pc = "consumed"
Result == unwrap(out).result
Terminal == unwrap(out).call

WhereCalls == SelectSeq(calls, LAMBDA c : c.kind = "where")
SetCalls == SelectSeq(calls, LAMBDA c : c.kind = "set")

----------------------------------------------------------------------------
(* C1: an Update builder's build() and build_with_params() return          *)
(* Err(NoSet) when no set_<field> call was made (also when no filter call  *)
(* was made either), otherwise Err(NoWhere) when no filter call was made,  *)
(* otherwise Ok; only the presence of a set call and of a filter call      *)
(* matters, not their order or number.                                     *)
C1_UpdateOutcome ==
    (Consumed /\ gen.kind = "Update") =>
        IF SetCalls = <<>> THEN Result = Err("NoSet")
        ELSE IF WhereCalls = <<>> THEN Result = Err("NoWhere")
        ELSE Result.tag = "Ok"

C1_Witness ==
    /\ Consumed /\ gen.kind = "Update"
    /\ SetCalls = <<>> /\ Len(WhereCalls) = 2
    /\ Terminal = "build_with_params"
    /\ Result = Err("NoSet")

(* C2: a Delete builder's build() and build_with_params() return           *)
(* Err(NoWhere) exactly when no filter call was made since new(), and Ok   *)
(* when at least one was made.                                             *)
C2_DeleteOutcome ==
    (Consumed /\ gen.kind = "Delete") =>
        /\ (Result = Err("NoWhere")) <=> (WhereCalls = <<>>)
        /\ (Result.tag = "Ok") <=> (WhereCalls # <<>>)

C2_Witness ==
    /\ Consumed /\ gen.kind = "Delete"
    /\ Len(WhereCalls) = 1 /\ WhereCalls[1].op = "not_in"
    /\ Result.tag = "Ok"

(* C3: every statement a successful build() / build_with_params() of an    *)
(* Update or Delete builder returns carries at least one filter predicate, *)
(* and for Update at least one column assignment, whatever was done        *)
(* through the builder's public interface, its `statement` field included. *)
C3_NoUnconstrainedStatement ==
    (Consumed /\ gen.kind \in {"Update", "Delete"} /\ Result.tag = "Ok") =>
        /\ Len(Result.statement.filters) >= 1
        /\ gen.kind = "Update" => Len(Result.statement.values) >= 1

(* C4: a Select builder's build() and build_with_params() succeed in every *)
(* state of the builder, the one right after new() included; it never      *)
(* yields NoWhere or NoSet.                                                *)
C4_SelectNeverFails ==
    /\ (pc = "open" /\ gen.kind = "Select") =>
          /\ build(self, gen).tag = "Ok"
          /\ build_with_params(self, gen).tag = "Ok"
    /\ (Consumed /\ gen.kind = "Select") =>
          /\ Result.tag = "Ok"
          /\ Result.error \notin {"NoWhere", "NoSet"}

C4_Witness ==
    /\ Consumed /\ gen.kind = "Select"
    /\ calls = <<>>
    /\ Result.tag = "Ok"

----------------------------------------------------------------------------
(* What the caller passed, as values of the field type *)

Live == pc \in {"open", "consumed"}

ArgValues(xs) == [i \in DOMAIN xs |-> xs[i].val]

\* the value a filter call c of method m is expected to leave in its slot
Passed(m, c) ==
    IF m.kind = "scalar" THEN c.args[1].val
    ELSE IF m.kind = "between" THEN <<c.args[1].val, c.args[2].val>>
    ELSE ArgValues(c.args[1])

CallsOf(m) == SelectSeq(calls, LAMBDA c : c.kind = "where" /\ c.method = m.ident)
LastCallOf(m) == CallsOf(m)[Len(CallsOf(m))]

\* the accessor pair is_<field>_<op> / get_<field>_<op> among a list of pairs
AccessorOf(m, accessors) ==
    CHOOSE a \in {unwrap(accessors[i]) : i \in DOMAIN accessors} :
        a.is = "is_" \o m.field \o "_" \o m.op /\ a.get = "get_" \o m.field \o "_" \o m.op

(* C5: for every permitted (field, op) of every builder kind, once         *)
(* <field>_<op> was called, is_<field>_<op>() is true and                  *)
(* get_<field>_<op>() is the value of the last such call (the slot does    *)
(* not accumulate), whatever other calls were made in between or after;    *)
(* calls for other (field, op) leave the slot as it is.                    *)
C5_LastWriteWins ==
    Live =>
        \A i \in DOMAIN gen.methods :
            LET m == gen.methods[i]
                a == AccessorOf(m, gen.accessors)
            IN  IF CallsOf(m) = <<>>
                THEN ~is_accessor(self, a) /\ get_accessor(self, a) = None
                ELSE /\ is_accessor(self, a)
                     /\ get_accessor(self, a) = Some(Passed(m, LastCallOf(m)))

C5_Witness ==
    /\ Live
    /\ \E i \in DOMAIN gen.methods :
         LET m == gen.methods[i]
             cs == CallsOf(m)
         IN  /\ Len(cs) = 2 /\ cs[1].args # cs[2].args
             /\ calls[Len(calls)].kind = "where" /\ calls[Len(calls)].method # m.ident
             /\ get_accessor(self, AccessorOf(m, gen.accessors)) = Some(Passed(m, cs[2]))

\* the records match the filter calls, one for one and in order
C6_Records ==
    Live =>
        /\ Len(where_params(self)) = Len(WhereCalls)
        /\ \A k \in DOMAIN WhereCalls :
              /\ where_params(self)[k].field = WhereCalls[k].field
              /\ where_params(self)[k].op = WhereCalls[k].op

\* a filter call appends one record; nothing else touches the sequence
C6_Step ==
    (pc = "open" /\ pc' = "open") =>
        IF calls' # calls /\ calls'[Len(calls')].kind = "where"
        THEN /\ Len(where_params(self')) = Len(where_params(self)) + 1
             /\ SubSeq(where_params(self'), 1, Len(where_params(self))) = where_params(self)
        ELSE where_params(self') = where_params(self)

(* C6: where_params() holds exactly one record per filter call made since  *)
(* new(), in call order; a filter call that overwrites a set slot still    *)
(* appends a record, and no call removes or rewrites an earlier record.    *)
C6_OneRecordPerFilterCall == []C6_Records /\ [][C6_Step]_vars

C6_Witness ==
    /\ Live
    /\ Len(WhereCalls) = 3
    /\ WhereCalls[1].method = WhereCalls[3].method
    /\ WhereCalls[1].method # WhereCalls[2].method
    /\ Len(where_params(self)) = 3

(* C7: a successful build_with_params() returns a snapshot whose           *)
(* is_/get_ accessors give, for every permitted (field, op), what the      *)
(* builder's accessors gave right before the call, and whose               *)
(* where_params() is the builder's; build() and a failing                  *)
(* build_with_params() give no snapshot.                                   *)
C7_SnapshotMirrorsBuilder ==
    Consumed =>
        IF Terminal = "build_with_params" /\ Result.tag = "Ok"
        THEN /\ is_some(Result.params)
             /\ LET p == unwrap(Result.params)
                IN  /\ where_params(p) = where_params(self)
                    /\ Len(gen.params_accessors) = Len(gen.accessors)
                    /\ \A i \in DOMAIN gen.methods :
                          LET m == gen.methods[i]
                              a == AccessorOf(m, gen.accessors)
                              pa == AccessorOf(m, gen.params_accessors)
                          IN  /\ is_accessor(p, pa) = is_accessor(self, a)
                              /\ get_accessor(p, pa) = get_accessor(self, a)
        ELSE Result.params = None

C7_Witness ==
    /\ Consumed /\ gen.kind = "Update"
    /\ Terminal = "build_with_params" /\ Result.tag = "Ok"
    /\ \E i, j \in DOMAIN gen.methods :
         /\ is_accessor(unwrap(Result.params), AccessorOf(gen.methods[i], gen.params_accessors))
         /\ ~is_accessor(unwrap(Result.params), AccessorOf(gen.methods[j], gen.params_accessors))

(* C8: after <field>_between(a, b), get_<field>_between() is the pair      *)
(* (a, b), a first and b second, also when a > b (never sorted or          *)
(* swapped), and the record appended by the call is                        *)
(* Range{start: rendering of a, end: rendering of b}.                      *)
C8_BetweenKeepsOrder ==
    Live =>
        /\ \A i \in DOMAIN gen.methods :
              LET m == gen.methods[i]
              IN  (m.kind = "between" /\ CallsOf(m) # <<>>) =>
                      LET c == LastCallOf(m)
                          got == unwrap(get_accessor(self, AccessorOf(m, gen.accessors)))
                      IN  got[1] = c.args[1].val /\ got[2] = c.args[2].val
        /\ \A k \in DOMAIN WhereCalls :
              LET c == WhereCalls[k]
              IN  (c.op = "between" /\ k \in DOMAIN where_params(self)) =>
                      where_params(self)[k].value =
                          RangeValue(fmt_debug(c.args[1].val, c.ty),
                                     fmt_debug(c.args[2].val, c.ty))

C8_Witness ==
    /\ Live
    /\ \E i \in DOMAIN gen.methods :
         LET m == gen.methods[i]
         IN  /\ m.kind = "between" /\ CallsOf(m) # <<>>
             /\ LastCallOf(m).args[1].val > LastCallOf(m).args[2].val
             /\ get_accessor(self, AccessorOf(m, gen.accessors)) = Some(<<1, 0>>)
             /\ where_params(self)[Len(where_params(self))].value = RangeValue("1", "0")

----------------------------------------------------------------------------
(* The permission declarations as written on the fields *)

OpKind == ScalarOps \cup {"in", "not_in", "between"}

Context(kind) ==
    IF kind = "Select" THEN "select" ELSE IF kind = "Update" THEN "update" ELSE "delete"

\* the items written in the where lists of context ctx on field f
WhereItems(f, ctx) ==
    UNION {UNION {UNION {Range(m2.args) :
                         m2 \in {x \in Range(meta.args) : x.path = <<"where">>}} :
                  meta \in {x \in Range(attr.metas) : x.path = <<ctx>>}} :
           attr \in {x \in Range(f.attrs) : x.path = "sea_builder"}}

\* the operations allowlisted for field f in context ctx
DeclaredOps(f, ctx) == {t.path[1] : t \in {x \in WhereItems(f, ctx) : Len(x.path) = 1}}

\* field f carries the update `set` flag
DeclaredSet(f) ==
    \E attr \in {x \in Range(f.attrs) : x.path = "sea_builder"} :
        \E meta \in {x \in Range(attr.metas) : x.path = <<"update">>} :
            \E m2 \in Range(meta.args) : m2.path = <<"set">>

Exposed == {<<gen.methods[i].field, gen.methods[i].op>> : i \in DOMAIN gen.methods}
ExposedSet == {gen.set_methods[i].field : i \in DOMAIN gen.set_methods}

(* C9: the builder of each kind exposes a filter method for (field, op)    *)
(* if and only if op is in that field's where list of the kind's own       *)
(* context, and the Update builder alone exposes set_<field>, if and only  *)
(* if the field carries the update `set` flag; an operation allowlisted in *)
(* one context is not available in another.                                *)
C9_PermissionsHonored ==
    (pc # "input" /\ Compiles(gen)) =>
        /\ Exposed = UNION {{<<Join(f.ident), op>> : op \in DeclaredOps(f, Context(gen.kind))} :
                            f \in Range(di.fields)}
        /\ \A i \in DOMAIN gen.methods :
              gen.methods[i].ident = gen.methods[i].field \o "_" \o gen.methods[i].op
        /\ ExposedSet = IF gen.kind = "Update"
                        THEN {Join(f.ident) : f \in {x \in Range(di.fields) : DeclaredSet(x)}}
                        ELSE {}

C9_Witness ==
    /\ pc = "open" /\ di = DemoItem /\ gen.kind = "Delete"
    /\ Exposed = {<<"id", "eq">>, <<"id", "not_in">>}
    /\ ExposedSet = {}

(* C10: an operation token outside the eleven supported operations that    *)
(* appears in a recognized where list is never silently dropped: the       *)
(* extractor collects it as written, and generating the builder kind whose *)
(* list contains it fails, leaving no builder of that kind.                *)
C10_UnknownOpIsFatal ==
    \A f \in Range(di.fields) :
        \A t \in WhereItems(f, Context(mode)) :
            (pc # "input" /\ t.path \notin {<<op>> : op \in OpKind}) =>
                /\ ~Compiles(gen)
                /\ pc = "expanded"

----------------------------------------------------------------------------
(* The table name as written on the struct *)

\* the literals of the table_name items of the #[sea_orm(..)] attributes
DeclaredTables(d) ==
    LET RECURSIVE Lits(_, _)
        Lits(metas, i) ==
            IF i > Len(metas) THEN <<>>
            ELSE (IF metas[i].path = <<"table_name">> /\ is_some(metas[i].value)
                  THEN <<unwrap(metas[i].value)>> ELSE <<>>) \o Lits(metas, i + 1)
        RECURSIVE All(_)
        All(i) ==
            IF i > Len(d.attrs) THEN <<>>
            ELSE (IF d.attrs[i].path = "sea_orm" THEN Lits(d.attrs[i].metas, 1) ELSE <<>>)
                 \o All(i + 1)
    IN  All(1)

\* upper camel case of a lower-case snake_case name: the words between the
\* underscores, each with its first letter capitalised, joined
UpperCamel(cs) ==
    LET RECURSIVE From(_)
        From(i) ==
            IF i > Len(cs) THEN ""
            ELSE IF cs[i] = "_" THEN From(i + 1)
            ELSE (IF i = 1 \/ cs[i - 1] = "_" THEN ToUpperChar(cs[i]) ELSE cs[i])
                 \o From(i + 1)
    IN  From(1)

ExpectedPrefix(d) ==
    IF DeclaredTables(d) = <<>> THEN "Entity"
    ELSE UpperCamel(DeclaredTables(d)[Len(DeclaredTables(d))])

(* C11: the generated type names come from the declared table name: the    *)
(* prefix is its upper-camel-case form (demo_item -> DemoItem, foo_bar ->  *)
(* FooBar), or `Entity` when no table name is declared; the builder of     *)
(* kind K is named <prefix><K> and its snapshot type <prefix><K>Params.    *)
C11_TypeNames ==
    (pc # "input" /\ gen.ok) =>
        /\ gen.kind = mode
        /\ gen.name = ExpectedPrefix(di) \o mode
        /\ gen.params_name = ExpectedPrefix(di) \o mode \o "Params"
        /\ di = DemoItem => gen.name = "DemoItem" \o mode
        /\ di = FooBar => gen.name = "FooBar" \o mode
        /\ di = UnknownContext => gen.name = "Entity" \o mode

C11_Witness ==
    /\ pc = "open" /\ di = DemoItem
    /\ gen.name = "DemoItemSelect"
    /\ gen.params_name = "DemoItemSelectParams"

----------------------------------------------------------------------------
(* Steps that are one fluent call of a given kind *)

LastCall == calls'[Len(calls')]
CallStep(kinds) == pc = "open" /\ calls' # calls /\ LastCall.kind \in kinds

\* has_where, where_params and every storage slot are left as they were
FilterStateUnchanged ==
    /\ self'.has_where = self.has_where
    /\ self'.where_params = self.where_params
    /\ self'.slots = self.slots

C12_Step ==
    CallStep({"set"}) =>
        /\ Len(self'.statement.values) = Len(self.statement.values) + 1
        /\ SubSeq(self'.statement.values, 1, Len(self.statement.values))
              = self.statement.values
        /\ \E i \in DOMAIN gen.set_methods :
              /\ gen.set_methods[i].ident = "set_" \o LastCall.field
              /\ self'.statement.values[Len(self'.statement.values)] =
                    [col |-> gen.set_methods[i].column, val |-> LastCall.args[1].val]
        /\ self'.statement.filters = self.statement.filters
        /\ self'.set_count = self.set_count + 1
        /\ FilterStateUnchanged

(* C12: on an Update builder each set_<field>(v) records exactly one       *)
(* column assignment on the statement and adds exactly one to set_count    *)
(* (repeated calls for one field each count), and leaves has_where, the    *)
(* where_params sequence and every filter storage slot unchanged.          *)
C12_SetRecordsOneAssignment == [][C12_Step]_vars

C12_Witness ==
    /\ Live /\ gen.kind = "Update"
    /\ Len(SetCalls) = 2 /\ SetCalls[1].method = SetCalls[2].method
    /\ self.set_count = 2 /\ Len(self.statement.values) = 2
    /\ ~self.has_where /\ self.where_params = <<>>

PassThroughKinds == {"order_by_asc", "order_by_desc", "limit", "offset"}

C13_Step ==
    CallStep(PassThroughKinds) =>
        /\ gen.kind = "Select"
        /\ FilterStateUnchanged
        /\ self'.statement.filters = self.statement.filters
        /\ self'.statement # self.statement \/ LastCall.kind \in {"limit", "offset"}
        /\ LastCall.kind = "order_by_asc" =>
              self'.statement.orders =
                  Append(self.statement.orders, [col |-> LastCall.args[1], ord |-> "Asc"])
        /\ LastCall.kind = "order_by_desc" =>
              self'.statement.orders =
                  Append(self.statement.orders, [col |-> LastCall.args[1], ord |-> "Desc"])
        /\ LastCall.kind = "limit" => self'.statement.limit = Some(LastCall.args[1])
        /\ LastCall.kind = "offset" => self'.statement.offset = Some(LastCall.args[1])
        /\ \A i \in DOMAIN gen.accessors :
              /\ is_accessor(self', unwrap(gen.accessors[i]))
                    = is_accessor(self, unwrap(gen.accessors[i]))
              /\ get_accessor(self', unwrap(gen.accessors[i]))
                    = get_accessor(self, unwrap(gen.accessors[i]))
        /\ build(self', gen).tag = build(self, gen).tag
        /\ build_with_params(self', gen).params = build_with_params(self, gen).params

(* C13: on a Select builder order_by_asc, order_by_desc, limit and offset  *)
(* only forward to the statement: has_where, the where_params sequence and *)
(* every filter storage slot stay as they were, so no accessor result and  *)
(* no terminal outcome differs with or without them.                       *)
C13_PassThroughOnly == [][C13_Step]_vars

C13_Witness ==
    /\ Live /\ gen.kind = "Select"
    /\ Len(calls) = 3
    /\ calls[1].kind = "where" /\ calls[2].kind = "limit" /\ calls[3].kind = "order_by_desc"
    /\ is_some(self.statement.limit) /\ Len(self.statement.orders) = 1
    /\ Len(self.where_params) = 1 /\ self.has_where

----------------------------------------------------------------------------
\* the record a filter call c is said to append: the debug text of the
\* value itself, in the shape of the operation
RenderedValue(c) ==
    IF c.op \in ScalarOps THEN Single(fmt_debug(c.args[1].val, c.ty))
    ELSE IF c.op = "between"
    THEN RangeValue(fmt_debug(c.args[1].val, c.ty), fmt_debug(c.args[2].val, c.ty))
    ELSE List([i \in DOMAIN c.args[1] |-> fmt_debug(c.args[1][i].val, c.ty)])

(* C14: every filter call <field>_<op> appends a record with that field,   *)
(* that op and the debug rendering of the value passed, the same for every *)
(* shape: a scalar v gives Single(debug(v)), a list gives List of debug(x) *)
(* for each element in order, a pair gives Range{start: debug(a), end:     *)
(* debug(b)}; the text of a value is the same in all three.                *)
C14_UniformRendering ==
    Live =>
        \A k \in DOMAIN WhereCalls :
            k \in DOMAIN where_params(self) =>
                where_params(self)[k] =
                    WhereParam(WhereCalls[k].field, WhereCalls[k].op,
                               RenderedValue(WhereCalls[k]))

----------------------------------------------------------------------------
\* a terminal call is made on an open builder and consumes it; once it has
\* returned, nothing more happens to that builder
C15_Step ==
    /\ out = None
    /\ out' # None => (pc = "open" /\ pc' = "consumed")
    /\ pc' = "consumed" => out' # None

(* C15: a builder goes from Open to Consumed once: exactly one terminal    *)
(* call (build or build_with_params) can be made on it, whether it         *)
(* succeeds or returns NoWhere / NoSet, and after it no fluent call,       *)
(* accessor or second terminal call on that builder is possible; a failed  *)
(* build cannot be repaired and retried on the same instance.              *)
C15_ConsumedOnce == [](Consumed <=> out # None) /\ [][C15_Step]_vars

C15_Witness ==
    /\ Consumed /\ gen.kind = "Update"
    /\ Result = Err("NoWhere")
    /\ Len(SetCalls) = 1 /\ Len(calls) < MaxCalls

----------------------------------------------------------------------------
(* Top-level permission entries that name no context *)

ContextNames == {<<"select">>, <<"update">>, <<"delete">>}

HasUnknownContext(d) ==
    \E f \in Range(d.fields) :
        \E attr \in {x \in Range(f.attrs) : x.path = "sea_builder"} :
            \E meta \in Range(attr.metas) : meta.path \notin ContextNames

\* the same input with those entries absent
WithoutUnknownContext(d) ==
    LET Strip(attr) ==
            IF attr.path = "sea_builder"
            THEN [attr EXCEPT !.metas = SelectSeq(attr.metas,
                                            LAMBDA m : m.path \in ContextNames)]
            ELSE attr
        StripField(f) == [f EXCEPT !.attrs = [j \in DOMAIN f.attrs |-> Strip(f.attrs[j])]]
    IN  [d EXCEPT !.fields = [i \in DOMAIN d.fields |-> StripField(d.fields[i])]]

(* C16: a permission entry whose top-level name is not select, update or   *)
(* delete is ignored, be it a bare name or a name with a parenthesised     *)
(* list: extraction succeeds and the field's permissions are what they     *)
(* would be without the entry.                                             *)
C16_UnknownContextIgnored ==
    (pc # "input" /\ HasUnknownContext(di) /\ collect(WithoutUnknownContext(di)).ok) =>
        /\ collect(di).ok
        /\ collect(di).fields = collect(WithoutUnknownContext(di)).fields
        /\ gen = expand(WithoutUnknownContext(di), mode)

----------------------------------------------------------------------------
SetSlots == {st \in DOMAIN self.slots : is_some(self.slots[st])}

HasRecord(field, op) ==
    \E r \in Range(where_params(self)) : r.field = field /\ r.op = op

(* C17: in every state of a builder reached through its fluent methods     *)
(* the three views of the filter state agree: has_where is true iff        *)
(* where_params is non-empty iff some storage slot is set, and for each    *)
(* permitted (field, op) is_<field>_<op>() is true iff where_params holds  *)
(* a record with that field and op; right after new() all are false /      *)
(* empty and an update builder's set_count is 0.                           *)
C17_FilterViewsAgree ==
    Live =>
        /\ self.has_where <=> where_params(self) # <<>>
        /\ self.has_where <=> SetSlots # {}
        /\ \A i \in DOMAIN gen.methods :
              LET m == gen.methods[i]
              IN  is_accessor(self, AccessorOf(m, gen.accessors)) <=> HasRecord(m.field, m.op)
        /\ calls = <<>> =>
              /\ ~self.has_where /\ where_params(self) = <<>> /\ SetSlots = {}
              /\ gen.kind = "Update" => self.set_count = 0

\* one slot written twice, another written once, a third never
C17_Witness ==
    /\ pc = "open" /\ self.has_where
    /\ Len(where_params(self)) = 3
    /\ Cardinality(SetSlots) = 2
    /\ SetSlots # DOMAIN self.slots
    /\ \E i \in DOMAIN gen.methods :
          /\ gen.methods[i].kind \notin {"scalar", "between"}
          /\ self.slots[gen.methods[i].storage] = Some(<<>>)

====
